---- MODULE Spec2Model ----
(***************************************************************************)
(* Model of the compressed-NFT client script (src/src/index.ts).           *)
(*                                                                         *)
(* main() runs createTree, mintCompressedNFT (twice),                      *)
(* transferCompressedNFT and burnCompressedNFT.  Every await of the script *)
(* is a point where the script is suspended on a remote call; each action  *)
(* below is the synchronous code that runs when one remote call settles,   *)
(* up to the next await.  The ledger (on-chain programs) and the indexing  *)
(* service are the environment.                                            *)
(***************************************************************************)
EXTENDS Integers, Sequences, FiniteSets, TLC

\* ------------------------------------------------------------------------
\* Bounds of the model
\* ------------------------------------------------------------------------
MaxProofLen == 3
MaxCanopy == 4

\* ------------------------------------------------------------------------
\* Program constants
\* ------------------------------------------------------------------------
MaxDepth == 3
MaxBufferSize == 8
CanopyDepth == 0

Wallet_1 == "Wallet_1"
Wallet_2 == "Wallet_2"
Wallets == {Wallet_1, Wallet_2}

\* Addresses Keypair.generate() may return for the tree account
TreeAddrs == {"T1", "T2"}
\* Node hashes an asset proof may contain
Nodes == {"n1", "n2"}

None == "none"
NoAsset == <<None, 0>>
NoError == [call |-> None, phase |-> None]
NoAssetData == [tree |-> None, owner |-> None, delegate |-> None, leaf_id |-> 0]
\* getCanopyDepth() reporting nothing (a falsy value)
NoCanopy == -1

\* Names of the remote calls
AirdropCall == "airdropSolIfNeeded"
RentCall == "getMinimumBalanceForRentExemption"
SendCall == "sendAndConfirmTransaction"
ExtractCall == "extractAssetId"
GetAssetCall == "getAsset"
GetAssetProofCall == "getAssetProof"
TreeAccountCall == "fromAccountAddress"

\* Messages written by console.error
MsgCreateTree == "Failed to create merkle tree:"
MsgMint == "Failed to mint compressed NFT:"
MsgTransfer == "Failed to transfer nft:"
MsgBurn == "Failed to burn NFT:"

Message(p) ==
  CASE p = "createTree" -> MsgCreateTree
    [] p = "mint" -> MsgMint
    [] p = "transfer" -> MsgTransfer
    [] p = "burn" -> MsgBurn
    [] OTHER -> None

Max(a, b) == IF a >= b THEN a ELSE b
Min(a, b) == IF a <= b THEN a ELSE b

\* ------------------------------------------------------------------------
\* Pure helpers
\* ------------------------------------------------------------------------

\* Array.prototype.slice(start, end): negative indexes count from the end
Slice(s, start, end) ==
  LET len == Len(s)
      k == IF start < 0 THEN Max(len + start, 0) ELSE Min(start, len)
      final == IF end < 0 THEN Max(len + end, 0) ELSE Min(end, len)
  IN IF final > k THEN SubSeq(s, k + 1, final) ELSE <<>>

\* proof.map(node => ({pubkey, isSigner: false, isWritable: false}))
MapMeta(proof) ==
  [i \in 1..Len(proof) |->
     [pubkey |-> proof[i], isSigner |-> FALSE, isWritable |-> FALSE]]

\* treeAccount.getCanopyDepth() || 0
CanopyOrZero(c) == IF c = NoCanopy \/ c = 0 THEN 0 ELSE c

\* proof.map(...).slice(0, proof.length - canopyDepth)
ProofPath(proof, canopyDepth) ==
  Slice(MapMeta(proof), 0, Len(proof) - canopyDepth)

\* PublicKey.findProgramAddressSync([tree.toBuffer()], BUBBLEGUM_PROGRAM_ID)
TreeAuthority(tree) == <<"treeAuthority", tree>>

\* ownership.delegate ? new PublicKey(ownership.delegate) : ownerPublicKey
DelegateOf(ownership) ==
  IF ownership.delegate # None THEN ownership.delegate ELSE ownership.owner

\* asset id of the leaf a mint transaction appended to the tree
extractAssetId(treeAddress, leafIndex) == <<treeAddress, leafIndex>>

\* ------------------------------------------------------------------------
\* Transactions built by the script
\* ------------------------------------------------------------------------
Tx(kind, ixs, feePayer, signers) ==
  [kind |-> kind, ixs |-> ixs, feePayer |-> feePayer, signers |-> signers,
   status |-> "pending", leafIndex |-> -1]

allocTreeIx(treeKey, payer, maxDepth, maxBufferSize, canopyDepth) ==
  [kind |-> "allocTree", newAccount |-> treeKey, payer |-> payer,
   maxDepth |-> maxDepth, maxBufferSize |-> maxBufferSize,
   canopyDepth |-> canopyDepth]

createTreeIx(treeKey, payer, maxDepth, maxBufferSize) ==
  [kind |-> "createTree", treeAuthority |-> TreeAuthority(treeKey),
   merkleTree |-> treeKey, payer |-> payer, treeCreator |-> payer,
   maxDepth |-> maxDepth, maxBufferSize |-> maxBufferSize, public |-> FALSE]

\* variant: the tree is initialised before it is allocated
CreateTreeTx_InitFirst(treeKey, payer, maxDepth, maxBufferSize, canopyDepth) ==
  Tx("createTree",
     << createTreeIx(treeKey, payer, maxDepth, maxBufferSize),
        allocTreeIx(treeKey, payer, maxDepth, maxBufferSize, canopyDepth) >>,
     payer, {treeKey, payer})

CreateTreeTx(treeKey, payer, maxDepth, maxBufferSize, canopyDepth) ==
  Tx("createTree",
     << allocTreeIx(treeKey, payer, maxDepth, maxBufferSize, canopyDepth),
        createTreeIx(treeKey, payer, maxDepth, maxBufferSize) >>,
     payer, {treeKey, payer})

\* variant: the leaf is minted to the other wallet
mintIx_OtherOwner(payer, treeAddress) ==
  [kind |-> "mintV1", payer |-> payer, merkleTree |-> treeAddress,
   treeAuthority |-> TreeAuthority(treeAddress), treeDelegate |-> payer,
   leafOwner |-> Wallet_2, leafDelegate |-> payer]

mintIx(payer, treeAddress) ==
  [kind |-> "mintV1", payer |-> payer, merkleTree |-> treeAddress,
   treeAuthority |-> TreeAuthority(treeAddress), treeDelegate |-> payer,
   leafOwner |-> payer, leafDelegate |-> payer]

MintTx(payer, treeAddress) ==
  Tx("mint", << mintIx(payer, treeAddress) >>, payer, {payer})

transferIx(data, authority, path, receiver) ==
  [kind |-> "transfer", merkleTree |-> data.tree, treeAuthority |-> authority,
   leafOwner |-> data.owner, leafDelegate |-> DelegateOf(data),
   newLeafOwner |-> receiver, anchorRemainingAccounts |-> path,
   nonce |-> data.leaf_id, index |-> data.leaf_id]

\* variant: the receiver pays for and signs the transfer
TransferTx_ReceiverSigns(data, authority, path, sender, receiver) ==
  Tx("transfer", << transferIx(data, authority, path, receiver) >>,
     receiver, {receiver})

TransferTx(data, authority, path, sender, receiver) ==
  Tx("transfer", << transferIx(data, authority, path, receiver) >>,
     sender, {sender})

burnIx(data, authority, path) ==
  [kind |-> "burn", treeAuthority |-> authority, leafOwner |-> data.owner,
   leafDelegate |-> DelegateOf(data), merkleTree |-> data.tree,
   anchorRemainingAccounts |-> path,
   nonce |-> data.leaf_id, index |-> data.leaf_id]

BurnTx(data, authority, path, payer) ==
  Tx("burn", << burnIx(data, authority, path) >>, payer, {payer})

\* ------------------------------------------------------------------------
\* The ledger: what the on-chain programs do with a confirmed transaction
\* ------------------------------------------------------------------------
NoTree ==
  [allocated |-> FALSE, initialized |-> FALSE, creator |-> None,
   delegate |-> None, public |-> FALSE, maxDepth |-> 0, maxBufferSize |-> 0,
   canopyDepth |-> 0, numMinted |-> 0]

EmptyLedger ==
  [trees |-> [t \in TreeAddrs |-> NoTree], leaves |-> <<>>, ok |-> TRUE,
   leafIndex |-> -1]

LeafMatches(L, ix) ==
  LET a == <<ix.merkleTree, ix.index>>
  IN /\ ix.merkleTree \in TreeAddrs
     /\ L.trees[ix.merkleTree].initialized
     /\ ix.treeAuthority = TreeAuthority(ix.merkleTree)
     /\ a \in DOMAIN L.leaves
     /\ L.leaves[a].status = "live"
     /\ L.leaves[a].owner = ix.leafOwner
     /\ L.leaves[a].delegate = ix.leafDelegate

ApplyIx(L, ix, signers) ==
  CASE ix.kind = "allocTree" ->
         IF /\ ~L.trees[ix.newAccount].allocated
            /\ {ix.newAccount, ix.payer} \subseteq signers
         THEN [L EXCEPT !.trees[ix.newAccount] =
                 [@ EXCEPT !.allocated = TRUE, !.maxDepth = ix.maxDepth,
                           !.maxBufferSize = ix.maxBufferSize,
                           !.canopyDepth = ix.canopyDepth]]
         ELSE [L EXCEPT !.ok = FALSE]
    [] ix.kind = "createTree" ->
         IF /\ L.trees[ix.merkleTree].allocated
            /\ ~L.trees[ix.merkleTree].initialized
            /\ L.trees[ix.merkleTree].maxDepth = ix.maxDepth
            /\ L.trees[ix.merkleTree].maxBufferSize = ix.maxBufferSize
            /\ ix.treeAuthority = TreeAuthority(ix.merkleTree)
            /\ {ix.payer, ix.treeCreator} \subseteq signers
         THEN [L EXCEPT !.trees[ix.merkleTree] =
                 [@ EXCEPT !.initialized = TRUE, !.creator = ix.treeCreator,
                           !.delegate = ix.treeCreator,
                           !.public = ix.public]]
         ELSE [L EXCEPT !.ok = FALSE]
    [] ix.kind = "mintV1" ->
         LET t == L.trees[ix.merkleTree]
         IN IF /\ t.initialized
               /\ ix.treeAuthority = TreeAuthority(ix.merkleTree)
               /\ ix.payer \in signers
               /\ \/ t.public
                  \/ /\ ix.treeDelegate \in {t.creator, t.delegate}
                     /\ ix.treeDelegate \in signers
               /\ t.numMinted < 2 ^ t.maxDepth
            THEN [L EXCEPT
                    !.leaves = <<ix.merkleTree, t.numMinted>> :>
                                 [owner |-> ix.leafOwner,
                                  delegate |-> ix.leafDelegate,
                                  status |-> "live"] @@ @,
                    !.trees[ix.merkleTree].numMinted = @ + 1,
                    !.leafIndex = t.numMinted]
            ELSE [L EXCEPT !.ok = FALSE]
    [] ix.kind = "transfer" ->
         IF /\ LeafMatches(L, ix)
            /\ (ix.leafOwner \in signers \/ ix.leafDelegate \in signers)
         THEN [L EXCEPT !.leaves[<<ix.merkleTree, ix.index>>] =
                 [@ EXCEPT !.owner = ix.newLeafOwner,
                           !.delegate = ix.newLeafOwner]]
         ELSE [L EXCEPT !.ok = FALSE]
    [] ix.kind = "burn" ->
         IF /\ LeafMatches(L, ix)
            /\ (ix.leafOwner \in signers \/ ix.leafDelegate \in signers)
         THEN [L EXCEPT !.leaves[<<ix.merkleTree, ix.index>>].status =
                 "burned"]
         ELSE [L EXCEPT !.ok = FALSE]

\* instructions of one transaction run in order; one failure fails them all
RECURSIVE ApplyIxs(_, _, _)
ApplyIxs(L, ixs, signers) ==
  IF ixs = <<>> \/ ~L.ok THEN L
  ELSE ApplyIxs(ApplyIx(L, Head(ixs), signers), Tail(ixs), signers)

ApplyTx(L, tx) ==
  ApplyIxs([L EXCEPT !.ok = tx.feePayer \in tx.signers, !.leafIndex = -1],
           tx.ixs, tx.signers)

\* ------------------------------------------------------------------------
\* State
\* ------------------------------------------------------------------------
VARIABLES
  pc,              \* the await at which main is suspended
  phase,           \* the function main is executing
  airdrop,         \* the promise returned by airdropSolIfNeeded
  outstanding,     \* remote calls issued and not yet settled
  treeKeypair,     \* createTree: Keypair.generate()
  treeAddress,     \* main: result of createTree
  assetId1,        \* main: result of the first mint
  assetId2,        \* main: result of the second mint
  txs,             \* transactions submitted, in submission order
  logged,          \* console.error output
  thrown,          \* the error that rejected main
  ledger,          \* trees and leaves on chain
  indexerFaithful, \* the indexing service reports the ledger's ownership
  calls,           \* calls of transferCompressedNFT / burnCompressedNFT
  assetData,       \* response of getAsset
  assetProofData,  \* response of getAssetProof (the proof)
  canopyReport,    \* treeAccount.getCanopyDepth()
  canopyDepth,     \* local canopyDepth
  proofPath        \* local proofPath

vars == <<pc, phase, airdrop, outstanding, treeKeypair, treeAddress, assetId1,
          assetId2, txs, logged, thrown, ledger, indexerFaithful, calls,
          assetData, assetProofData, canopyReport, canopyDepth, proofPath>>

\* main's locals
wallet == Wallet_1
wallet2 == Wallet_2

Last(s) == s[Len(s)]

Proofs == UNION {[1..n -> Nodes] : n \in 0..MaxProofLen}

\* what the indexing service may answer to getAsset for asset id
AssetResponses(id) ==
  IF indexerFaithful
  THEN {[tree |-> id[1], owner |-> ledger.leaves[id].owner, delegate |-> d,
         leaf_id |-> id[2]] : d \in {None, ledger.leaves[id].delegate}}
  ELSE {[tree |-> id[1], owner |-> o, delegate |-> d, leaf_id |-> l] :
          o \in Wallets, d \in {None} \cup Wallets, l \in {0, 1}}

SetStatus(T, st, li) ==
  [T EXCEPT ![Len(T)] = [@ EXCEPT !.status = st, !.leafIndex = li]]

Init ==
  /\ pc = "start"
  /\ phase = "main"
  /\ airdrop = "none"
  /\ outstanding = {}
  /\ treeKeypair = None
  /\ treeAddress = None
  /\ assetId1 = NoAsset
  /\ assetId2 = NoAsset
  /\ txs = <<>>
  /\ logged = <<>>
  /\ thrown = NoError
  /\ ledger = EmptyLedger
  /\ indexerFaithful \in BOOLEAN
  /\ calls = <<>>
  /\ assetData = NoAssetData
  /\ assetProofData = <<>>
  /\ canopyReport = NoCanopy
  /\ canopyDepth = 0
  /\ proofPath = <<>>

\* ------------------------------------------------------------------------
\* Code run between two awaits.  Each fragment sets pc, phase, outstanding,
\* txs, calls, thrown and logged; out is the set of calls still outstanding
\* and T the transactions submitted so far.
\* ------------------------------------------------------------------------

\* an error leaves the current function: caught says whether the failing
\* await is inside the function's try block
Throw(call, caught, out, T) ==
  /\ pc' = "failed"
  /\ thrown' = [call |-> call, phase |-> phase]
  /\ logged' = IF caught THEN Append(logged, Message(phase)) ELSE logged
  /\ outstanding' = out
  /\ txs' = T
  /\ UNCHANGED <<phase, calls>>

createTreeCatch(call, out, T) == Throw(call, TRUE, out, T)

\* variant: the catch block sends the mint again instead of rethrowing
mintCatch_Retry(call, out, T) ==
  /\ pc' = "mintTx"
  /\ logged' = Append(logged, Message(phase))
  /\ txs' = Append(T, MintTx(Wallet_1, treeAddress))
  /\ outstanding' = out \cup {SendCall}
  /\ UNCHANGED <<phase, calls, thrown>>

mintCatch(call, out, T) == Throw(call, TRUE, out, T)
transferCatch(call, out, T) == Throw(call, TRUE, out, T)
burnCatch(call, out, T) == Throw(call, TRUE, out, T)

\* mintCompressedNFT up to its first await
mintCompressedNFT(payer, tree, out, T) ==
  /\ phase' = "mint"
  /\ pc' = "mintTx"
  /\ txs' = Append(T, MintTx(payer, tree))
  /\ outstanding' = out \cup {SendCall}
  /\ UNCHANGED <<calls, thrown, logged>>

\* transferCompressedNFT up to its first await
transferCompressedNFT(id, sender, receiver, out, T) ==
  /\ phase' = "transfer"
  /\ pc' = "transferFetch"
  /\ calls' = Append(calls, [fn |-> "transfer", asset |-> id,
                             sender |-> sender, receiver |-> receiver])
  /\ outstanding' = out \cup {GetAssetCall, GetAssetProofCall}
  /\ txs' = T
  /\ UNCHANGED <<thrown, logged>>

\* burnCompressedNFT up to its first await
burnCompressedNFT(id, payer, out, T) ==
  /\ phase' = "burn"
  /\ pc' = "burnFetch"
  /\ calls' = Append(calls, [fn |-> "burn", asset |-> id,
                             sender |-> payer, receiver |-> None])
  /\ outstanding' = out \cup {GetAssetCall, GetAssetProofCall}
  /\ txs' = T
  /\ UNCHANGED <<thrown, logged>>

\* main after createTree returned
mainAfterCreateTree(tree, out, T) ==
  /\ treeAddress' = tree
  /\ mintCompressedNFT(wallet, tree, out, T)

\* variant: main transfers right after the first mint
mainAfterMint_OneMint(id, out, T) ==
  /\ assetId1' = id
  /\ assetId2' = assetId2
  /\ transferCompressedNFT(id, Wallet_1, Wallet_2, out, T)

\* main after a mint returned id
mainAfterMint(id, out, T) ==
  IF assetId1 = NoAsset
  THEN /\ assetId1' = id
       /\ assetId2' = assetId2
       /\ mintCompressedNFT(wallet, treeAddress, out, T)
  ELSE /\ assetId2' = id
       /\ assetId1' = assetId1
       /\ transferCompressedNFT(assetId1, wallet, wallet2, out, T)

\* variant: main burns the asset it has just transferred
mainAfterTransfer_BurnFirst(out, T) ==
  burnCompressedNFT(assetId1, Wallet_1, out, T)

\* main after the transfer returned
mainAfterTransfer(out, T) == burnCompressedNFT(assetId2, wallet, out, T)

\* main after the burn returned
mainAfterBurn(out, T) ==
  /\ pc' = "done"
  /\ phase' = "main"
  /\ outstanding' = out
  /\ txs' = T
  /\ UNCHANGED <<calls, thrown, logged>>

\* canopy depth and proof path of transferCompressedNFT / burnCompressedNFT
buildProofPath(report) ==
  /\ canopyReport' = report
  /\ canopyDepth' = CanopyOrZero(report)
  /\ proofPath' = ProofPath(assetProofData, CanopyOrZero(report))

\* ------------------------------------------------------------------------
\* Actions
\* ------------------------------------------------------------------------

\* main up to the first await of createTree
Start ==
  /\ pc = "start"
  /\ \E k \in TreeAddrs : treeKeypair' = k
  /\ airdrop' = "pending"
  /\ phase' = "createTree"
  /\ pc' = "allocIx"
  /\ outstanding' = outstanding \cup {AirdropCall, RentCall}
  /\ UNCHANGED <<treeAddress, assetId1, assetId2, txs, logged, thrown, ledger,
                 indexerFaithful, calls, assetData, assetProofData,
                 canopyReport, canopyDepth, proofPath>>

\* the promise of airdropSolIfNeeded settles; nothing awaits it
AirdropReturn ==
  /\ AirdropCall \in outstanding
  /\ outstanding' = outstanding \ {AirdropCall}
  /\ airdrop' = "done"
  /\ UNCHANGED <<pc, phase, treeKeypair, treeAddress, assetId1, assetId2, txs,
                 logged, thrown, ledger, indexerFaithful, calls, assetData,
                 assetProofData, canopyReport, canopyDepth, proofPath>>

\* createTree: createAllocTreeIx settles
AllocIxReturn ==
  /\ pc = "allocIx"
  /\ \E ok \in BOOLEAN :
       LET out == outstanding \ {RentCall}
       IN IF ok
          THEN /\ pc' = "createTreeTx"
               /\ txs' = Append(txs, CreateTreeTx(treeKeypair, wallet, MaxDepth,
                                                  MaxBufferSize, CanopyDepth))
               /\ outstanding' = out \cup {SendCall}
               /\ UNCHANGED <<phase, calls, thrown, logged>>
          ELSE Throw(RentCall, FALSE, out, txs)
  /\ UNCHANGED <<airdrop, treeKeypair, treeAddress, assetId1, assetId2, ledger,
                 indexerFaithful, assetData, assetProofData, canopyReport,
                 canopyDepth, proofPath>>

\* createTree: sendAndConfirmTransaction settles
CreateTreeTxReturn ==
  /\ pc = "createTreeTx"
  /\ \E ok \in BOOLEAN :
       LET L == ApplyTx(ledger, Last(txs))
           out == outstanding \ {SendCall}
       IN /\ ok => L.ok
          /\ IF ok
             THEN /\ ledger' = L
                  /\ mainAfterCreateTree(treeKeypair, out,
                                         SetStatus(txs, "confirmed", -1))
             ELSE /\ ledger' = ledger
                  /\ treeAddress' = treeAddress
                  /\ createTreeCatch(SendCall, out,
                                     SetStatus(txs, "failed", -1))
  /\ UNCHANGED <<airdrop, treeKeypair, assetId1, assetId2, indexerFaithful,
                 assetData, assetProofData, canopyReport, canopyDepth,
                 proofPath>>

\* mintCompressedNFT: sendAndConfirmTransaction settles
MintTxReturn ==
  /\ pc = "mintTx"
  /\ \E ok \in BOOLEAN :
       LET L == ApplyTx(ledger, Last(txs))
           out == outstanding \ {SendCall}
       IN /\ ok => L.ok
          /\ IF ok
             THEN /\ ledger' = L
                  /\ pc' = "mintExtract"
                  /\ txs' = SetStatus(txs, "confirmed", L.leafIndex)
                  /\ outstanding' = out \cup {ExtractCall}
                  /\ UNCHANGED <<phase, calls, thrown, logged>>
             ELSE /\ ledger' = ledger
                  /\ mintCatch(SendCall, out, SetStatus(txs, "failed", -1))
  /\ UNCHANGED <<airdrop, treeKeypair, treeAddress, assetId1, assetId2,
                 indexerFaithful, assetData, assetProofData, canopyReport,
                 canopyDepth, proofPath>>

\* mintCompressedNFT: extractAssetId settles
MintExtractReturn ==
  /\ pc = "mintExtract"
  /\ \E ok \in BOOLEAN :
       LET out == outstanding \ {ExtractCall}
       IN IF ok
          THEN mainAfterMint(extractAssetId(treeAddress, Last(txs).leafIndex),
                             out, txs)
          ELSE /\ mintCatch(ExtractCall, out, txs)
               /\ UNCHANGED <<assetId1, assetId2>>
  /\ UNCHANGED <<airdrop, treeKeypair, treeAddress, ledger, indexerFaithful,
                 assetData, assetProofData, canopyReport, canopyDepth,
                 proofPath>>

\* Promise.all([heliusApi("getAsset"), heliusApi("getAssetProof")]): one of
\* the two fetches settles while the function waits at fetchPc; the function
\* goes on to fromAccountAddress (accountPc) once both have answered, and
\* Promise.all rejects as soon as one fails
FetchReturn(call, fetchPc, accountPc) ==
  /\ pc = fetchPc
  /\ call \in outstanding
  /\ \E ok \in BOOLEAN :
       LET out == outstanding \ {call}
       IN IF ok
          THEN /\ IF call = GetAssetCall
                  THEN /\ assetData' \in AssetResponses(Last(calls).asset)
                       /\ assetProofData' = assetProofData
                  ELSE /\ assetProofData' \in Proofs
                       /\ assetData' = assetData
               /\ IF out \cap {GetAssetCall, GetAssetProofCall} = {}
                  THEN /\ pc' = accountPc
                       /\ outstanding' = out \cup {TreeAccountCall}
                  ELSE /\ pc' = pc
                       /\ outstanding' = out
               /\ UNCHANGED <<phase, txs, calls, thrown, logged>>
          ELSE /\ Throw(call, TRUE, out, txs)
               /\ UNCHANGED <<assetData, assetProofData>>
  /\ UNCHANGED <<airdrop, treeKeypair, treeAddress, assetId1, assetId2, ledger,
                 indexerFaithful, canopyReport, canopyDepth, proofPath>>

\* transferCompressedNFT: a fetch of the Promise.all settles
TransferFetchReturn ==
  /\ phase = "transfer"
  /\ \E call \in {GetAssetCall, GetAssetProofCall} :
       FetchReturn(call, "transferFetch", "transferTreeAccount")

\* burnCompressedNFT: a fetch of the Promise.all settles
BurnFetchReturn ==
  /\ phase = "burn"
  /\ \E call \in {GetAssetCall, GetAssetProofCall} :
       FetchReturn(call, "burnFetch", "burnTreeAccount")

\* a fetch settles after Promise.all has already rejected
OrphanFetchReturn ==
  /\ pc = "failed"
  /\ \E call \in {GetAssetCall, GetAssetProofCall} :
       /\ call \in outstanding
       /\ outstanding' = outstanding \ {call}
  /\ UNCHANGED <<pc, phase, airdrop, treeKeypair, treeAddress, assetId1,
                 assetId2, txs, logged, thrown, ledger, indexerFaithful, calls,
                 assetData, assetProofData, canopyReport, canopyDepth,
                 proofPath>>

\* transferCompressedNFT: ConcurrentMerkleTreeAccount.fromAccountAddress
\* settles; the transfer transaction is built and sent
TransferTreeAccountReturn ==
  /\ pc = "transferTreeAccount"
  /\ \E ok \in BOOLEAN :
       LET out == outstanding \ {TreeAccountCall}
           report == ledger.trees[assetData.tree].canopyDepth
       IN IF ok
          THEN /\ buildProofPath(report)
               /\ pc' = "transferTx"
               /\ txs' = Append(txs,
                    TransferTx(assetData, TreeAuthority(assetData.tree),
                               ProofPath(assetProofData, CanopyOrZero(report)),
                               Last(calls).sender, Last(calls).receiver))
               /\ outstanding' = out \cup {SendCall}
               /\ UNCHANGED <<phase, calls, thrown, logged>>
          ELSE /\ transferCatch(TreeAccountCall, out, txs)
               /\ UNCHANGED <<canopyReport, canopyDepth, proofPath>>
  /\ UNCHANGED <<airdrop, treeKeypair, treeAddress, assetId1, assetId2, ledger,
                 indexerFaithful, assetData, assetProofData>>

\* transferCompressedNFT: sendAndConfirmTransaction settles
TransferTxReturn ==
  /\ pc = "transferTx"
  /\ \E ok \in BOOLEAN :
       LET L == ApplyTx(ledger, Last(txs))
           out == outstanding \ {SendCall}
       IN /\ ok => L.ok
          /\ IF ok
             THEN /\ ledger' = L
                  /\ mainAfterTransfer(out, SetStatus(txs, "confirmed", -1))
             ELSE /\ ledger' = ledger
                  /\ transferCatch(SendCall, out, SetStatus(txs, "failed", -1))
  /\ UNCHANGED <<airdrop, treeKeypair, treeAddress, assetId1, assetId2,
                 indexerFaithful, assetData, assetProofData, canopyReport,
                 canopyDepth, proofPath>>

\* burnCompressedNFT: ConcurrentMerkleTreeAccount.fromAccountAddress settles;
\* the burn transaction is built and sent
BurnTreeAccountReturn ==
  /\ pc = "burnTreeAccount"
  /\ \E ok \in BOOLEAN :
       LET out == outstanding \ {TreeAccountCall}
           report == ledger.trees[assetData.tree].canopyDepth
       IN IF ok
          THEN /\ buildProofPath(report)
               /\ pc' = "burnTx"
               /\ txs' = Append(txs,
                    BurnTx(assetData, TreeAuthority(assetData.tree),
                           ProofPath(assetProofData, CanopyOrZero(report)),
                           Last(calls).sender))
               /\ outstanding' = out \cup {SendCall}
               /\ UNCHANGED <<phase, calls, thrown, logged>>
          ELSE /\ burnCatch(TreeAccountCall, out, txs)
               /\ UNCHANGED <<canopyReport, canopyDepth, proofPath>>
  /\ UNCHANGED <<airdrop, treeKeypair, treeAddress, assetId1, assetId2, ledger,
                 indexerFaithful, assetData, assetProofData>>

\* burnCompressedNFT: sendAndConfirmTransaction settles
BurnTxReturn ==
  /\ pc = "burnTx"
  /\ \E ok \in BOOLEAN :
       LET L == ApplyTx(ledger, Last(txs))
           out == outstanding \ {SendCall}
       IN /\ ok => L.ok
          /\ IF ok
             THEN /\ ledger' = L
                  /\ mainAfterBurn(out, SetStatus(txs, "confirmed", -1))
             ELSE /\ ledger' = ledger
                  /\ burnCatch(SendCall, out, SetStatus(txs, "failed", -1))
  /\ UNCHANGED <<airdrop, treeKeypair, treeAddress, assetId1, assetId2,
                 indexerFaithful, assetData, assetProofData, canopyReport,
                 canopyDepth, proofPath>>

Next ==
  \/ Start
  \/ AirdropReturn
  \/ AllocIxReturn
  \/ CreateTreeTxReturn
  \/ MintTxReturn
  \/ MintExtractReturn
  \/ TransferFetchReturn
  \/ BurnFetchReturn
  \/ OrphanFetchReturn
  \/ TransferTreeAccountReturn
  \/ TransferTxReturn
  \/ BurnTreeAccountReturn
  \/ BurnTxReturn

Spec == Init /\ [][Next]_vars

\* ------------------------------------------------------------------------
\* The proof path as a function of the fetched proof and the canopy depth
\* the tree account reports
\* ------------------------------------------------------------------------
InitProof ==
  /\ pc = "proofInput"
  /\ phase \in {"transfer", "burn"}
  /\ assetProofData \in Proofs
  /\ canopyReport \in {NoCanopy} \cup (0..MaxCanopy)
  /\ airdrop = "none"
  /\ outstanding = {}
  /\ treeKeypair = None
  /\ treeAddress = None
  /\ assetId1 = NoAsset
  /\ assetId2 = NoAsset
  /\ txs = <<>>
  /\ logged = <<>>
  /\ thrown = NoError
  /\ ledger = EmptyLedger
  /\ indexerFaithful = TRUE
  /\ calls = <<>>
  /\ assetData = NoAssetData
  /\ canopyDepth = 0
  /\ proofPath = <<>>

BuildProofPath ==
  /\ pc = "proofInput"
  /\ buildProofPath(canopyReport)
  /\ pc' = "proofBuilt"
  /\ UNCHANGED <<phase, airdrop, outstanding, treeKeypair, treeAddress,
                 assetId1, assetId2, txs, logged, thrown, ledger,
                 indexerFaithful, calls, assetData, assetProofData>>

NextProof == BuildProofPath

SpecProof == InitProof /\ [][NextProof]_vars

\* ------------------------------------------------------------------------
\* Properties
\* ------------------------------------------------------------------------
PhaseOrder == <<"createTree", "mint", "mint", "transfer", "burn">>

Phases == {"createTree", "mint", "transfer", "burn"}

TxsOfKind(k) == {i \in 1..Len(txs) : txs[i].kind = k}

\* C1: transactions are submitted in the order create-tree, mint, mint,
\* transfer, burn; a transaction is submitted only when every earlier one is
\* confirmed and the result of the earlier phase (tree address, asset id)
\* has been returned to main; a run that ends normally has submitted all five
C1_SubmissionOrder ==
  /\ Len(txs) <= 5
  /\ \A i \in 1..Len(txs) : txs[i].kind = PhaseOrder[i]
  /\ \A i \in 1..(Len(txs) - 1) : txs[i].status = "confirmed"
  /\ Len(txs) >= 2 => treeAddress # None
  /\ Len(txs) >= 3 => assetId1 # NoAsset
  /\ Len(txs) >= 4 => assetId2 # NoAsset
  /\ pc = "done" => /\ Len(txs) = 5
                    /\ \A i \in 1..5 : txs[i].status = "confirmed"

C1_Witness == pc = "done" /\ Len(txs) = 5

\* C2: at every point at most one remote call is outstanding
C2_OneOutstanding == Cardinality(outstanding) <= 1

\* C3: when a remote call of a phase fails, the phase has logged its failure
\* message and the error that reaches main is the error of that call
C3_FailureLogged ==
  thrown # NoError =>
    /\ thrown.phase \in Phases
    /\ Len(logged) > 0
    /\ logged[Len(logged)] = Message(thrown.phase)

\* C4: once a phase has failed the run stays aborted and submits nothing
\* more; a failed transaction is the last one submitted, and each of the
\* five transactions (one create-tree, two mints, one transfer, one burn) is
\* submitted at most once
C4_SubmittedOnce ==
  /\ Cardinality(TxsOfKind("createTree")) <= 1
  /\ Cardinality(TxsOfKind("mint")) <= 2
  /\ Cardinality(TxsOfKind("transfer")) <= 1
  /\ Cardinality(TxsOfKind("burn")) <= 1
  /\ \A i \in 1..Len(txs) : txs[i].status = "failed" => i = Len(txs)
  /\ \A i \in 1..Len(txs) : txs[i].status = "failed" => pc = "failed"
  /\ thrown # NoError <=> pc = "failed"

C4_AbortOnFailure ==
  /\ []C4_SubmittedOnce
  /\ [][pc = "failed" => (pc' = "failed" /\ txs' = txs /\ calls' = calls)]_vars

C4_Witness ==
  /\ pc = "failed"
  /\ Len(txs) \in 1..4
  /\ txs[Len(txs)].status = "failed"

\* C5: a run that completes has created exactly one tree, minted exactly
\* two leaves, both into that tree, asked for the transfer of the first
\* minted asset and for the burn of the second; the two assets differ and no
\* asset is named by more than one transfer-or-burn call
C5_OneTreeTwoAssets ==
  pc = "done" =>
    /\ {t \in TreeAddrs : ledger.trees[t].initialized} = {treeAddress}
    /\ Cardinality(TxsOfKind("createTree")) = 1
    /\ Cardinality(DOMAIN ledger.leaves) = 2
    /\ \A a \in DOMAIN ledger.leaves : a[1] = treeAddress
    /\ {assetId1, assetId2} = DOMAIN ledger.leaves
    /\ Len(calls) = 2
    /\ calls[1].fn = "transfer" /\ calls[1].asset = assetId1
    /\ calls[2].fn = "burn" /\ calls[2].asset = assetId2
    /\ assetId1 # assetId2
    /\ \A i, j \in 1..Len(calls) : calls[i].asset = calls[j].asset => i = j
    /\ indexerFaithful =>
         /\ ledger.leaves[assetId1].owner = Wallet_2
         /\ ledger.leaves[assetId1].status = "live"
         /\ ledger.leaves[assetId2].status = "burned"

C5_Witness == pc = "done" /\ indexerFaithful /\ Len(calls) = 2

\* C6: the proof path is the prefix of the fetched proof of length
\* max(0, proof.length - canopyDepth), canopyDepth being 0 when the tree
\* account reports none, and every entry is non-signer and non-writable
C6_ProofPathPrefix ==
  pc = "proofBuilt" =>
    LET c == IF canopyReport = NoCanopy THEN 0 ELSE canopyReport
        n == Max(0, Len(assetProofData) - c)
    IN /\ Len(proofPath) = n
       /\ \A i \in 1..n :
            proofPath[i] = [pubkey |-> assetProofData[i], isSigner |-> FALSE,
                            isWritable |-> FALSE]

\* C7: createTree submits one transaction: allocate-tree-account then
\* initialise-tree, both for the generated tree address and the same
\* maxDepth and maxBufferSize, signed by the tree keypair and the payer; no
\* tree is initialised without being allocated, and the tree address is
\* returned only once that transaction is confirmed
C7_CreateTreeTx ==
  /\ Cardinality(TxsOfKind("createTree")) <= 1
  /\ \A i \in TxsOfKind("createTree") :
       /\ Len(txs[i].ixs) = 2
       /\ txs[i].ixs[1].kind = "allocTree"
       /\ txs[i].ixs[2].kind = "createTree"
       /\ txs[i].ixs[1].newAccount = treeKeypair
       /\ txs[i].ixs[2].merkleTree = treeKeypair
       /\ txs[i].ixs[1].maxDepth = txs[i].ixs[2].maxDepth
       /\ txs[i].ixs[1].maxBufferSize = txs[i].ixs[2].maxBufferSize
       /\ txs[i].signers = {treeKeypair, Wallet_1}
  /\ \A t \in TreeAddrs : ledger.trees[t].initialized => ledger.trees[t].allocated
  /\ treeAddress # None =>
       /\ treeAddress = treeKeypair
       /\ txs[1].kind = "createTree"
       /\ txs[1].status = "confirmed"
       /\ ledger.trees[treeAddress].initialized

C7_Witness == treeAddress # None /\ ledger.trees[treeAddress].initialized

\* C8: every mint names the tree returned by createTree, the authority
\* derived from it, and Wallet_1 as payer, tree delegate, leaf owner and leaf
\* delegate; the tree is non-public with Wallet_1 as creator, so the minter
\* is the creator, and a leaf just minted is owned by Wallet_1
C8_MintByCreator ==
  /\ \A i \in TxsOfKind("mint") :
       LET ix == txs[i].ixs[1]
       IN /\ treeAddress # None
          /\ ix.merkleTree = treeAddress
          /\ ix.treeAuthority = TreeAuthority(treeAddress)
          /\ ix.payer = Wallet_1
          /\ ix.treeDelegate = Wallet_1
          /\ ix.leafOwner = Wallet_1
          /\ ix.leafDelegate = Wallet_1
          /\ ~ledger.trees[treeAddress].public
          /\ ledger.trees[treeAddress].creator = ix.treeDelegate
          /\ ix.treeDelegate \in txs[i].signers
  /\ pc = "mintExtract" =>
       LET a == <<treeAddress, txs[Len(txs)].leafIndex>>
       IN /\ a \in DOMAIN ledger.leaves
          /\ ledger.leaves[a].owner = Wallet_1
          /\ ledger.leaves[a].status = "live"

C8_Witness ==
  /\ pc = "mintExtract"
  /\ assetId1 # NoAsset
  /\ Cardinality(DOMAIN ledger.leaves) = 2

\* C9: when the indexing service reports the ledger's ownership, the leaf
\* owner of the transfer and of the burn instruction is Wallet_1, the signer
\* and fee payer of the transaction; the transfer's new owner is Wallet_2;
\* and the asset a burn is sent for still belongs to Wallet_1
C9_OwnerSigns ==
  indexerFaithful =>
    /\ \A i \in TxsOfKind("transfer") \cup TxsOfKind("burn") :
         /\ txs[i].ixs[1].leafOwner = Wallet_1
         /\ txs[i].feePayer = Wallet_1
         /\ txs[i].signers = {Wallet_1}
    /\ \A i \in TxsOfKind("transfer") : txs[i].ixs[1].newLeafOwner = Wallet_2
    /\ pc = "burnTx" =>
         LET ix == txs[Len(txs)].ixs[1]
             a == <<ix.merkleTree, ix.index>>
         IN /\ a = calls[Len(calls)].asset
            /\ a # calls[1].asset
            /\ ledger.leaves[a].owner = Wallet_1
            /\ ledger.leaves[a].status = "live"

C9_Witness == indexerFaithful /\ pc = "burnTx"

====
